---- MODULE Spec2Model ----
(***************************************************************************)
(* libdockerexcess: the streaming transport and frame-demultiplexing layer *)
(*                                                                         *)
(*   src/docker-excess.c  write_response_callback, make_request,           *)
(*                        log_stream_callback, docker_excess_get_logs      *)
(*   src/docker-excess.h  docker_buf_append, docker_write_cb,              *)
(*                        docker_perform_http, docker_exec_start,          *)
(*                        docker_socket_skip_headers, docker_stream_exec   *)
(*                                                                         *)
(* Bytes are naturals below 128, so that a 32-bit big-endian length read   *)
(* from any four bytes of a stream stays inside TLC's integers.            *)
(***************************************************************************)
EXTENDS Integers, Sequences, FiniteSets, TLC

\* ------------------------------------------------------------------ bounds
\* frames on the wire of one logs call
MaxFrames == 2
\* calls of the write callback (socket reads) during one transfer
MaxChunks == 3
\* loop iterations of one log_stream_callback call whose malloc may fail
MaxAllocFail == 1
\* requests made on one DOCKER client
MaxRequests == 2
\* threads that share one docker_excess_t client
MaxThreads == 2
\* library calls these threads make on the client in all
MaxCalls == 3
\* BUFFER_SIZE of the build (src/docker-excess.h:40-42 lets the build set it;
\* 4096 when it does not): the size of initial[] and of buf[]
BufCap == 12

\* ------------------------------------------------------- program constants
CR == 13
LF == 10
NUL == 0
HeaderLen == 8
STDIN_CH == 0
STDOUT_CH == 1
STDERR_CH == 2
\* sizeof(tmp) in docker_socket_skip_headers
TmpSize == 512
\* the first capacity of make_request's response buffer
InitialCapacity == 8192
\* sizeof(hdr) in docker_socket_connect_and_send
HdrSize == 1024
\* the bytes of the request head other than the path and the body length
HeadFixedLen == 109

\* ------------------------------------------------------------ byte helpers
\* SubSeq with C offsets: bytes [off, off+n) of s
Bytes(s, off, n) == SubSeq(s, off + 1, off + n)

\* ntohl(*(uint32_t*)(content + off)): the four bytes at off, big-endian
ntohl(content, off) ==
    ((content[off + 1] * 256 + content[off + 2]) * 256 + content[off + 3]) * 256
        + content[off + 4]

\* the wire encoding of one frame: channel, three reserved zero bytes, length
\* (big-endian, below 128 here), payload
Frame(ch, payload) == <<ch, 0, 0, 0, 0, 0, 0, Len(payload)>> \o payload


\* ------------------------------------------------------------------- state
VARIABLES
    \* docker_excess_get_logs / log_stream_callback (src/docker-excess.c)
    frames,       \* the frames the daemon sends: <<[ch, payload], ...>>
    pos,          \* body bytes curl has handed to log_stream_callback so far
    ncalls,       \* calls of log_stream_callback made by curl_easy_perform
    sunk,         \* sink invocations: [line, at, received]
    steps,        \* loop iterations: [declared, advance, at]
    allocFailed,  \* some malloc(payload_size + 1) returned NULL
    logPc,        \* "perform" inside curl_easy_perform, "done" after return
    logEnd,       \* how the transfer ended: "none", "close", "error"
    logRes        \* docker_excess_get_logs's return value

logVars == <<frames, pos, ncalls, sunk, steps, allocFailed, logPc, logEnd, logRes>>

VARIABLES
    \* docker_stream_exec / docker_socket_skip_headers (src/docker-excess.h)
    resp,         \* the bytes the daemon sends on the socket: head, CRLFCRLF, body
    rd,           \* bytes read() has returned from the socket so far
    out_buf,      \* initial[]: the bytes stored so far (out_buf[0..total)), or,
                  \* once the boundary is found, the body moved to its front
    total,        \* docker_socket_skip_headers: total
    out_len,      \* *out_len
    body_start,   \* body_start of the boundary found, -1 before
    skipDone,     \* docker_socket_skip_headers has returned
    skipRes,      \* its return value, 0 or -1, once skipDone
    skipRd,       \* rd when docker_socket_skip_headers returned
    stdOut,       \* the bytes written to STDOUT_FILENO
    execPc,       \* "skip" (step 4), "stream" (step 6), "done"
    execRes,      \* docker_stream_exec's return value, once execPc = "done"
    lastRead,     \* n: what the latest read() returned (1 before the first)
    execCloses    \* close(fd) calls docker_stream_exec has made itself

execVars == <<resp, rd, out_buf, total, out_len, body_start, skipDone, skipRes,
              skipRd, stdOut, execPc, execRes, lastRead, execCloses>>

VARIABLES
    \* docker_perform_http / docker_exec_start (src/docker-excess.h)
    body,         \* the response body the daemon sends for the current request
    status,       \* its HTTP status
    sent,         \* body bytes curl has handed to docker_write_cb so far
    buf,          \* c->buf: [data, size]; data = <<>> is NULL, else size bytes + NUL
    max_response, \* c->max_response, 0 = unlimited
    last_error,   \* c->last_error
    last_http_status, \* c->last_http_status
    found,        \* what the current request found when it started:
                  \* [size, status, error] of the request before
    lastAppend,   \* the last docker_buf_append call:
                  \* [before, len, maxcap, alloc, ret]
    httpPc,       \* "idle", "perform" inside curl_easy_perform, "done"
    httpRes,      \* the CURLcode docker_perform_http returned
    esRes,        \* docker_exec_start's return value, once httpPc = "done"
    esOut,        \* *out_output of docker_exec_start (a C string, without its NUL)
    nreq          \* requests started on this client

httpVars == <<body, status, sent, buf, max_response, last_error, last_http_status,
              found, lastAppend, httpPc, httpRes, esRes, esOut, nreq>>

VARIABLES
    \* make_request / write_response_callback (src/docker-excess.c)
    rbody,        \* the response body the daemon sends
    rstatus,      \* its HTTP status
    rsent,        \* body bytes curl has handed to write_response_callback
    rcalls,       \* calls of write_response_callback made by curl_easy_perform
    rb,           \* buffer: [data, size, capacity]; data = <<>> is NULL
    appended,     \* the chunks of the calls that returned total_size, joined
    lastWrite,    \* the last write_response_callback call: [before, len, ret]
    mrPc,         \* "perform" inside curl_easy_perform, "done" after return
    mrRes,        \* make_request's return value
    response,     \* *response: [set, data]
    rvalid,       \* client, method and endpoint are all non-NULL
    rlocks,       \* pthread_mutex_lock calls make_request has made
    mrCurl        \* res: what curl_easy_perform returned, "none" before

reqVars == <<rbody, rstatus, rsent, rcalls, rb, appended, lastWrite, mrPc, mrRes,
             response, rvalid, rlocks, mrCurl>>

VARIABLES
    \* docker_socket_connect_and_send (src/docker-excess.h)
    spath,        \* strlen(path)
    sbodylen,     \* bodylen
    sPc,          \* the next call: "socket", "connect", "head", "body"; "done"
    sendRes,      \* the return value, once sPc = "done": the descriptor or -1
    writes,       \* the write() calls made: <<[asked, got], ...>>
    shead,        \* the lines of the head handed to write(), <<>> before
    closes,       \* close(fd) calls made
    sopened       \* socket() has returned a descriptor

sendVars == <<spath, sbodylen, sPc, sendRes, writes, closes, shead, sopened>>

VARIABLES
    \* threads calling make_request and docker_excess_get_logs on one
    \* docker_excess_t (src/docker-excess.c)
    tpc,          \* per thread: "idle", "lock", "reset", "perform",
                  \* "set_error", "set_error_locked", "get_error"
    tcall,        \* per thread: the function it is in, "none" when idle
    tcount,       \* the calls made on the client so far
    mutex,        \* client->mutex: the thread that holds it, NoThread if free
    nsink,        \* sink invocations of the transfer in progress
    lastSink,     \* the latest sink invocation: [by, holder, others]
    tget,         \* per thread: its docker_excess_get_error call, made by
                  \* the caller or from inside the sink: "none", "lock",
                  \* "locked", "read" (returned, the caller reads msg)
    tmsg,         \* per thread: msg as docker_excess_get_error returned it
    tres,         \* per thread: res of its failed transfer, "none" otherwise
    error_msg,    \* client->error_msg
    streamEnded,  \* the log stream of the transfer in progress has ended
    lastGet       \* the latest read of a returned msg: [msg, read]

thrVars == <<tpc, tcall, tcount, mutex, nsink, lastSink, tget, tmsg, tres,
             error_msg, streamEnded, lastGet>>

vars == <<logVars, execVars, httpVars, reqVars, sendVars, thrVars>>

\* ----------------------------------------------- the multiplexed log stream
\* payloads the daemon sends: "hello", "b\n", "", "\r\n", "c"
HELLO == <<104, 101, 108, 108, 111>>

FrameChoices ==
    { [ch |-> STDOUT_CH, payload |-> HELLO],
      [ch |-> STDERR_CH, payload |-> <<98, LF>>],
      [ch |-> STDOUT_CH, payload |-> <<>>],
      [ch |-> STDOUT_CH, payload |-> <<CR, LF>>],
      [ch |-> STDIN_CH,  payload |-> <<99>>] }

FrameSeqs == UNION { [1..n -> FrameChoices] : n \in 0..MaxFrames }

RECURSIVE Encode(_)
Encode(fs) ==
    IF fs = <<>> THEN <<>>
    ELSE Frame(Head(fs).ch, Head(fs).payload) \o Encode(Tail(fs))

\* the byte stream of the response body
wire == Encode(frames)

\* offset in wire of frame k's header
FrameStart(k) == Len(Encode(SubSeq(frames, 1, k - 1)))

\* offsets at which no frame is pending: before the first frame, after each
FrameBoundaries == { FrameStart(k) : k \in 1..(Len(frames) + 1) }

\* src/docker-excess.c:328-330: payload_size after the trailing CR/LF loop
RECURSIVE StripLen(_, _)
StripLen(line, payload_size) ==
    IF payload_size > 0 /\ (line[payload_size] = LF \/ line[payload_size] = CR)
    THEN StripLen(line, payload_size - 1)
    ELSE payload_size

\* src/docker-excess.c:315-339: the while loop, from cursor `processed`.
\* failAt holds the iterations whose malloc returns NULL; acc collects the
\* sink invocations and the cursor movements of this call.
RECURSIVE LogLoop(_, _, _, _)
LogLoop(content, processed, failAt, acc) ==
    LET total_size == Len(content) IN
    IF ~(processed < total_size) THEN acc
    ELSE IF total_size - processed < HeaderLen THEN acc
    ELSE
      LET payload_size == ntohl(content, processed + 4) IN
      IF processed + HeaderLen + payload_size > total_size THEN acc
      ELSE
        LET iter     == Len(acc.steps) + 1
            line     == Bytes(content, processed + HeaderLen, payload_size)
            stripped == IF iter \in failAt THEN payload_size
                        ELSE StripLen(line, payload_size)
            calls    == IF iter \notin failAt /\ stripped > 0
                        THEN <<[line |-> SubSeq(line, 1, stripped), at |-> processed]>>
                        ELSE <<>>
            step     == [declared |-> payload_size,
                         advance  |-> HeaderLen + stripped,
                         at       |-> processed]
        IN LogLoop(content, processed + HeaderLen + stripped, failAt,
                   [sunk   |-> acc.sunk \o calls,
                    steps  |-> acc.steps \o <<step>>,
                    failed |-> acc.failed \/ iter \in failAt])

\* a variant of the loop that drops the frames of the stdin channel
RECURSIVE LogLoop_SkipStdin(_, _, _, _)
LogLoop_SkipStdin(content, processed, failAt, acc) ==
    LET total_size == Len(content) IN
    IF ~(processed < total_size) THEN acc
    ELSE IF total_size - processed < HeaderLen THEN acc
    ELSE
      LET payload_size == ntohl(content, processed + 4) IN
      IF processed + HeaderLen + payload_size > total_size THEN acc
      ELSE
        LET iter     == Len(acc.steps) + 1
            line     == Bytes(content, processed + HeaderLen, payload_size)
            stripped == IF iter \in failAt THEN payload_size
                        ELSE StripLen(line, payload_size)
            calls    == IF iter \notin failAt /\ stripped > 0
                           /\ content[processed + 1] # STDIN_CH
                        THEN <<[line |-> SubSeq(line, 1, stripped), at |-> processed]>>
                        ELSE <<>>
            step     == [declared |-> payload_size,
                         advance  |-> HeaderLen + stripped,
                         at       |-> processed]
        IN LogLoop_SkipStdin(content, processed + HeaderLen + stripped, failAt,
                   [sunk   |-> acc.sunk \o calls,
                    steps  |-> acc.steps \o <<step>>,
                    failed |-> acc.failed \/ iter \in failAt])

log_stream_callback_SkipStdin(content, failAt) ==
    LET r == LogLoop_SkipStdin(content, 0, failAt,
                               [sunk |-> <<>>, steps |-> <<>>, failed |-> FALSE])
    IN [sunk |-> r.sunk, steps |-> r.steps, failed |-> r.failed, ret |-> Len(content)]

\* src/docker-excess.c:307-342: one call; the return value is total_size
log_stream_callback(content, failAt) ==
    LET r == LogLoop(content, 0, failAt, [sunk |-> <<>>, steps |-> <<>>, failed |-> FALSE])
    IN [sunk |-> r.sunk, steps |-> r.steps, failed |-> r.failed, ret |-> Len(content)]

\* a call's records, moved from chunk offsets to stream offsets
Shift(recs, base, received) ==
    [i \in 1..Len(recs) |-> [line |-> recs[i].line, at |-> recs[i].at + base,
                             received |-> received]]

ShiftSteps(recs, base) ==
    [i \in 1..Len(recs) |-> [declared |-> recs[i].declared,
                             advance |-> recs[i].advance, at |-> recs[i].at + base]]

LogStart ==
    /\ pos = 0
    /\ ncalls = 0
    /\ sunk = <<>>
    /\ steps = <<>>
    /\ allocFailed = FALSE
    /\ logPc = "perform"
    /\ logEnd = "none"
    /\ logRes = "none"

LogInit == frames \in FrameSeqs /\ LogStart

\* curl_easy_perform (src/docker-excess.c:930) read n more body bytes and
\* calls the write function with them; the callback returns total_size, so
\* the transfer goes on
LogWrite ==
    /\ logPc = "perform"
    /\ ncalls < MaxChunks
    /\ \E n \in 1..(Len(wire) - pos), failAt \in SUBSET (1..MaxAllocFail) :
         LET r == log_stream_callback(Bytes(wire, pos, n), failAt) IN
         /\ r.ret = n
         /\ sunk' = sunk \o Shift(r.sunk, pos, pos + n)
         /\ steps' = steps \o ShiftSteps(r.steps, pos)
         /\ allocFailed' = (allocFailed \/ r.failed)
         /\ pos' = pos + n
         /\ ncalls' = ncalls + 1
    /\ UNCHANGED <<frames, logPc, logEnd, logRes>>
    /\ UNCHANGED <<execVars, httpVars, reqVars, sendVars, thrVars>>

\* src/docker-excess.c:933-938: the result of docker_excess_get_logs, from
\* the CURLcode of curl_easy_perform
get_logs_result(res) ==
    IF res # "CURLE_OK" THEN "DOCKER_EXCESS_ERR_NETWORK" ELSE "DOCKER_EXCESS_OK"

\* the peer closes and the body ends there: curl_easy_perform returns
\* CURLE_OK, whatever the callback made of the bytes (it always returned
\* total_size)
LogPeerClose ==
    /\ logPc = "perform"
    /\ logPc' = "done"
    /\ logEnd' = "close"
    /\ logRes' = get_logs_result("CURLE_OK")
    /\ UNCHANGED <<frames, pos, ncalls, sunk, steps, allocFailed>>
    /\ UNCHANGED <<execVars, httpVars, reqVars, sendVars, thrVars>>

\* the transfer fails (reset, timeout): curl_easy_perform returns an error
LogTransportError ==
    /\ logPc = "perform"
    /\ logPc' = "done"
    /\ logEnd' = "error"
    /\ \E res \in {"CURLE_RECV_ERROR", "CURLE_OPERATION_TIMEDOUT"} :
         logRes' = get_logs_result(res)
    /\ UNCHANGED <<frames, pos, ncalls, sunk, steps, allocFailed>>
    /\ UNCHANGED <<execVars, httpVars, reqVars, sendVars, thrVars>>

LogNext == LogWrite \/ LogPeerClose \/ LogTransportError

\* --------------------------------------------- raw-socket exec streaming
Min(a, b) == IF a < b THEN a ELSE b

\* response heads (status line, headers, CRLFCRLF) and bodies of the daemon:
\* "H\r\n\r\n", "H\r\nX\r\n\r\n" and a head longer than the buffer;
\* "", "a", "a\r\n\r\nb", "abcdefgh"
LongHead == [i \in 1..(BufCap + 2) |-> 72] \o <<CR, LF, CR, LF>>

RespHeads ==
    { <<72, CR, LF, CR, LF>>,
      <<72, CR, LF, 88, CR, LF, CR, LF>>,
      LongHead }

RespBodies ==
    { <<>>,
      <<97>>,
      <<97, CR, LF, CR, LF, 98>>,
      <<97, 98, 99, 100, 101, 102, 103, 104>> }

Responses == { h \o b : h \in RespHeads, b \in RespBodies }

\* src/docker-excess.h:705-715: the first i in [from, total - 3) with
\* out_buf[i..i+3] = CR LF CR LF, or -1
RECURSIVE FindTerminator(_, _, _)
FindTerminator(ob, i, tot) ==
    IF ~(i + 3 < tot) THEN -1
    ELSE IF ob[i + 1] = CR /\ ob[i + 2] = LF /\ ob[i + 3] = CR /\ ob[i + 4] = LF
         THEN i
         ELSE FindTerminator(ob, i + 1, tot)

\* a variant in which only a failed read ends the header scan
SkipReadFails_ErrorOnly(n) == n < 0

\* src/docker-excess.h:694: the read() result that makes
\* docker_socket_skip_headers return -1
SkipReadFails(n) == n <= 0

\* a variant in which every byte read is stored
Keep_All(n, tot, bufcap) == n

\* src/docker-excess.h:695-703: how many of the n bytes read are stored
Keep(n, tot, bufcap) == IF n + tot > bufcap THEN bufcap - tot ELSE n

\* src/docker-excess.h:695-721: one pass of the while loop after read()
\* returned the n bytes tmp. again: the loop reads once more; else ret is the
\* function's return value.
SkipIteration(ob, tot, tmp, bufcap) ==
    LET n     == Len(tmp)
        keep  == Keep(n, tot, bufcap)
        ob1   == SubSeq(ob, 1, tot) \o SubSeq(tmp, 1, keep)
        tot1  == tot + keep
        from  == IF tot1 > n THEN tot1 - n ELSE 0
        i     == FindTerminator(ob1, from, tot1)
    IN IF i >= 0
       THEN LET bstart == i + 4
                blen   == tot1 - bstart
            IN [out_buf |-> Bytes(ob1, bstart, blen) \o Bytes(ob1, blen, tot1 - blen),
                total |-> tot1, out_len |-> blen, body_start |-> bstart,
                again |-> FALSE, ret |-> 0]
       ELSE [out_buf |-> ob1, total |-> tot1, out_len |-> 0, body_start |-> -1,
             again |-> ~(tot1 >= bufcap), ret |-> -1]

\* a return path that forgets the descriptor
CloseFd_Leak(n) == n

\* close(fd) on a return path (src/docker-excess.h:652, 667, 672, 675, 773,
\* 793): one more close() call made
CloseFd(n) == n + 1

ExecStart ==
    /\ rd = 0
    /\ out_buf = <<>>
    /\ total = 0
    /\ out_len = 0
    /\ body_start = -1
    /\ skipDone = FALSE
    /\ skipRes = 0
    /\ skipRd = 0
    /\ stdOut = <<>>
    /\ execPc = "skip"
    /\ execRes = 0
    /\ lastRead = 1
    /\ execCloses = 0

\* src/docker-excess.h:693-721 and 772-782: read() returns n > 0 bytes inside
\* docker_socket_skip_headers; on success docker_stream_exec writes the
\* initial body bytes to stdout and goes on to the streaming loop
SkipRead ==
    /\ execPc = "skip"
    /\ \E n \in 1..Min(TmpSize, Len(resp) - rd) :
         LET r == SkipIteration(out_buf, total, Bytes(resp, rd, n), BufCap) IN
         /\ rd' = rd + n
         /\ lastRead' = n
         /\ out_buf' = r.out_buf
         /\ total' = r.total
         /\ out_len' = r.out_len
         /\ body_start' = r.body_start
         /\ IF r.again
            THEN UNCHANGED <<skipDone, skipRes, skipRd, stdOut, execPc, execRes,
                             execCloses>>
            ELSE /\ skipDone' = TRUE
                 /\ skipRes' = r.ret
                 /\ skipRd' = rd + n
                 /\ IF r.ret = 0
                    THEN /\ stdOut' = stdOut \o Bytes(r.out_buf, 0, r.out_len)
                         /\ execPc' = "stream"
                         /\ UNCHANGED <<execRes, execCloses>>
                    ELSE /\ execPc' = "done"
                         /\ execRes' = -1
                         /\ execCloses' = CloseFd(execCloses)
                         /\ UNCHANGED stdOut
    /\ UNCHANGED resp
    /\ UNCHANGED <<logVars, httpVars, reqVars, sendVars, thrVars>>

\* src/docker-excess.h:693-694 and 772-775: read() returns 0 (the peer
\* closed) or -1 before the boundary was found; docker_stream_exec closes
\* the socket and returns -1
SkipReadEnd ==
    /\ execPc = "skip"
    /\ \E n \in {0, -1} :
         /\ lastRead' = n
         /\ IF SkipReadFails(n)
            THEN /\ skipDone' = TRUE
                 /\ skipRes' = -1
                 /\ skipRd' = rd
                 /\ execPc' = "done"
                 /\ execRes' = -1
                 /\ execCloses' = CloseFd(execCloses)
            ELSE UNCHANGED <<skipDone, skipRes, skipRd, execPc, execRes, execCloses>>
    /\ UNCHANGED <<resp, rd, out_buf, total, out_len, body_start, stdOut>>
    /\ UNCHANGED <<logVars, httpVars, reqVars, sendVars, thrVars>>

\* src/docker-excess.h:785-791: read() returns n > 0 bytes in the streaming
\* loop, which writes them to stdout
StreamRead ==
    /\ execPc = "stream"
    /\ \E n \in 1..Min(BufCap, Len(resp) - rd) :
         /\ rd' = rd + n
         /\ lastRead' = n
         /\ stdOut' = stdOut \o Bytes(resp, rd, n)
    /\ UNCHANGED <<resp, out_buf, total, out_len, body_start, skipDone, skipRes,
                   skipRd, execPc, execRes, execCloses>>
    /\ UNCHANGED <<logVars, httpVars, reqVars, sendVars, thrVars>>

\* src/docker-excess.h:787-794: read() returns 0 (the peer closed) or -1 (the
\* read failed); either way the loop ends, the socket is closed and
\* docker_stream_exec returns 0
StreamEnd ==
    /\ execPc = "stream"
    /\ \E n \in {0, -1} : lastRead' = n
    /\ execPc' = "done"
    /\ execRes' = 0
    /\ execCloses' = CloseFd(execCloses)
    /\ UNCHANGED <<resp, rd, out_buf, total, out_len, body_start, skipDone,
                   skipRes, skipRd, stdOut>>
    /\ UNCHANGED <<logVars, httpVars, reqVars, sendVars, thrVars>>

ExecNext == SkipRead \/ SkipReadEnd \/ StreamRead \/ StreamEnd

\* src/docker-excess.h:764-767: docker_socket_connect_and_send returned -1,
\* and docker_stream_exec returns -1 without touching a descriptor
ExecSendFailed ==
    /\ execPc = "skip"
    /\ sPc = "done"
    /\ sendRes = -1
    /\ execPc' = "done"
    /\ execRes' = -1
    /\ UNCHANGED <<resp, rd, out_buf, total, out_len, body_start, skipDone,
                   skipRes, skipRd, stdOut, lastRead, execCloses>>
    /\ UNCHANGED <<logVars, httpVars, reqVars, sendVars, thrVars>>

\* src/docker-excess.h:764-794: steps 4 to 6 run on the descriptor
\* docker_socket_connect_and_send returned
ExecOnSocket == sPc = "done" /\ sendRes # -1 /\ ExecNext

ExecInit == resp \in Responses /\ ExecStart

\* ------------------------------------------- buffered calls (docker-excess.h)
\* the bytes of a C string: up to the first NUL
RECURSIVE CStr(_)
CStr(str) ==
    IF str = <<>> \/ Head(str) = NUL THEN <<>> ELSE <<Head(str)>> \o CStr(Tail(str))

\* src/docker-excess.h:147-157: docker_buf_free then docker_buf_init
EmptyBuf == [data |-> <<>>, size |-> 0]

\* a variant that takes maxcap = 0 as a cap of zero bytes
docker_buf_append_ZeroIsCap(b, data, len, maxcap, reallocOk) ==
    IF len = 0 THEN [b |-> b, ret |-> 0]
    ELSE IF b.size + len + 1 > maxcap /\ maxcap <= b.size + 1
    THEN [b |-> b, ret |-> -1]
    ELSE
      LET len1 == IF b.size + len + 1 > maxcap THEN maxcap - (b.size + 1) ELSE len
      IN IF ~reallocOk THEN [b |-> b, ret |-> -1]
         ELSE [b   |-> [data |-> SubSeq(b.data, 1, b.size) \o SubSeq(data, 1, len1)
                                    \o <<NUL>>,
                        size |-> b.size + len1],
               ret |-> 0]

\* a variant that never looks at maxcap
docker_buf_append_NoCap(b, data, len, maxcap, reallocOk) ==
    IF len = 0 THEN [b |-> b, ret |-> 0]
    ELSE IF ~reallocOk THEN [b |-> b, ret |-> -1]
    ELSE [b   |-> [data |-> SubSeq(b.data, 1, b.size) \o SubSeq(data, 1, len)
                               \o <<NUL>>,
                   size |-> b.size + len],
          ret |-> 0]

\* src/docker-excess.h:159-173. reallocOk: realloc returned non-NULL.
docker_buf_append(b, data, len, maxcap, reallocOk) ==
    IF len = 0 THEN [b |-> b, ret |-> 0]
    ELSE IF maxcap # 0 /\ b.size + len + 1 > maxcap /\ maxcap <= b.size + 1
    THEN [b |-> b, ret |-> -1]
    ELSE
      LET len1 == IF maxcap # 0 /\ b.size + len + 1 > maxcap
                  THEN maxcap - (b.size + 1)
                  ELSE len
      IN IF ~reallocOk THEN [b |-> b, ret |-> -1]
         ELSE [b   |-> [data |-> SubSeq(b.data, 1, b.size) \o SubSeq(data, 1, len1)
                                    \o <<NUL>>,
                        size |-> b.size + len1],
               ret |-> 0]

\* src/docker-excess.h:176-184
docker_write_cb(b, ptr, realsz, maxcap, reallocOk) ==
    LET r == docker_buf_append(b, ptr, realsz, maxcap, reallocOk)
    IN [b |-> r.b, append |-> r.ret, ret |-> IF r.ret # 0 THEN 0 ELSE realsz]

\* a variant of the start of a request that keeps what the request before
\* left
PerformStart_Keep(c) == c

\* src/docker-excess.h:230-233: docker_perform_http empties the buffer and
\* clears the status and the error text
PerformStart(c) == [buf |-> EmptyBuf, last_http_status |-> 0, last_error |-> ""]

\* src/docker-excess.h:272-276: c->last_error after curl_easy_perform
ErrorAfterPerform(res, b, maxresp) ==
    IF res # "CURLE_OK" THEN "curl"
    ELSE IF maxresp # 0 /\ b.size >= maxresp THEN "response truncated (max cap reached)"
    ELSE ""

\* src/docker-excess.h:605-617: docker_exec_start after docker_post returned
\* r with HTTP status st; strdupOk: strdup returned non-NULL
exec_start_result(r, st, b, strdupOk) ==
    IF r # "CURLE_OK" THEN [ret |-> -1, out |-> <<>>]
    ELSE IF ~(st = 200 \/ st = 204) THEN [ret |-> -1, out |-> <<>>]
    ELSE IF ~strdupOk THEN [ret |-> -1, out |-> <<>>]
    ELSE [ret |-> 0, out |-> IF b.data # <<>> THEN CStr(b.data) ELSE <<>>]

\* bodies of the daemon: "", "ab", "abcde", and the multiplexed output of an
\* exec, one stdout frame "a"
HttpBodies ==
    { <<>>, <<97, 98>>, <<97, 98, 99, 100, 101>>, Frame(STDOUT_CH, <<97>>) }

\* docker_set_max_response_size (src/docker-excess.h:331-334) takes any size
MaxResponseChoices == {0, 1, 4, 6}

\* no docker_buf_append call made yet in this request
NoAppend == [before |-> EmptyBuf, len |-> 0, maxcap |-> 0, alloc |-> TRUE, ret |-> 0]

\* a client on which no request has been made
NothingFound == [size |-> 0, status |-> 0, error |-> ""]

HttpStart0 ==
    /\ body = <<>>
    /\ status = 0
    /\ sent = 0
    /\ buf = EmptyBuf
    /\ last_error = ""
    /\ last_http_status = 0
    /\ found = NothingFound
    /\ lastAppend = NoAppend
    /\ httpPc = "idle"
    /\ httpRes = "CURLE_OK"
    /\ esRes = 0
    /\ esOut = <<>>
    /\ nreq = 0

\* docker_init (src/docker-excess.h:284-307) and docker_set_max_response_size
HttpInit == max_response \in MaxResponseChoices /\ HttpStart0

HttpIdle == max_response = 0 /\ HttpStart0

\* src/docker-excess.h:229-268: a request starts; the buffer, the status and
\* the error text of the one before are dropped
HttpBegin ==
    /\ httpPc \in {"idle", "done"}
    /\ nreq < MaxRequests
    /\ nreq' = nreq + 1
    /\ body' \in HttpBodies
    /\ status' \in {200, 404}
    /\ sent' = 0
    /\ LET c == PerformStart([buf |-> buf, last_http_status |-> last_http_status,
                              last_error |-> last_error])
       IN /\ buf' = c.buf
          /\ last_http_status' = c.last_http_status
          /\ last_error' = c.last_error
    /\ found' = [size |-> buf.size, status |-> last_http_status, error |-> last_error]
    /\ httpPc' = "perform"
    /\ lastAppend' = NoAppend
    /\ httpRes' = "CURLE_OK"
    /\ esRes' = 0
    /\ esOut' = <<>>
    /\ UNCHANGED max_response
    /\ UNCHANGED <<logVars, execVars, reqVars, sendVars, thrVars>>

\* src/docker-excess.h:268-279 and 605-617: curl_easy_perform returned res
HttpReturn(res, b) ==
    /\ httpPc' = "done"
    /\ httpRes' = res
    /\ last_http_status' \in (IF res = "CURLE_RECV_ERROR" /\ sent = 0 THEN {0, status}
                              ELSE {status})
    /\ LET e == ErrorAfterPerform(res, b, max_response)
       IN last_error' = IF e = "" THEN last_error ELSE e
    /\ \E strdupOk \in BOOLEAN :
         LET e == exec_start_result(res, status, b, strdupOk) IN
         /\ esRes' = e.ret
         /\ esOut' = e.out

\* curl_easy_perform hands the next n body bytes to docker_write_cb; a return
\* value other than n aborts the transfer with CURLE_WRITE_ERROR
HttpWrite ==
    /\ httpPc = "perform"
    /\ \E n \in 1..(Len(body) - sent), reallocOk \in BOOLEAN :
         LET r == docker_write_cb(buf, Bytes(body, sent, n), n, max_response, reallocOk) IN
         /\ buf' = r.b
         /\ lastAppend' = [before |-> buf, len |-> n, maxcap |-> max_response,
                           alloc |-> reallocOk, ret |-> r.append]
         /\ sent' = sent + n
         /\ IF r.ret = n
            THEN UNCHANGED <<last_error, last_http_status, httpPc, httpRes, esRes, esOut>>
            ELSE HttpReturn("CURLE_WRITE_ERROR", r.b)
    /\ UNCHANGED <<body, status, max_response, found, nreq>>
    /\ UNCHANGED <<logVars, execVars, reqVars, sendVars, thrVars>>

\* the whole body has been handed over: curl_easy_perform returns CURLE_OK
HttpComplete ==
    /\ httpPc = "perform"
    /\ sent = Len(body)
    /\ HttpReturn("CURLE_OK", buf)
    /\ UNCHANGED <<body, status, sent, buf, max_response, found, lastAppend, nreq>>
    /\ UNCHANGED <<logVars, execVars, reqVars, sendVars, thrVars>>

\* the transfer fails before the body is complete
HttpTransportError ==
    /\ httpPc = "perform"
    /\ sent < Len(body)
    /\ HttpReturn("CURLE_RECV_ERROR", buf)
    /\ UNCHANGED <<body, status, sent, buf, max_response, found, lastAppend, nreq>>
    /\ UNCHANGED <<logVars, execVars, reqVars, sendVars, thrVars>>

HttpNext == HttpBegin \/ HttpWrite \/ HttpComplete \/ HttpTransportError

\* a side that is not running: its stream is empty
\* ------------------------------------------- buffered calls (docker-excess.c)
\* src/docker-excess.c:42-44: new_capacity doubled until the data and its NUL fit
\* a variant that grows by a fixed step instead of doubling
RECURSIVE GrowCapacity_Linear(_, _)
GrowCapacity_Linear(new_capacity, need) ==
    IF new_capacity < need
    THEN GrowCapacity_Linear(new_capacity + InitialCapacity, need)
    ELSE new_capacity

RECURSIVE GrowCapacity(_, _)
GrowCapacity(new_capacity, need) ==
    IF new_capacity < need THEN GrowCapacity(new_capacity * 2, need) ELSE new_capacity

\* write_response_callback with lines 42-44 left out: the capacity is doubled
\* once, whatever the append needs
write_response_callback_GrowOnce(buffer, contents, total_size, reallocOk) ==
    LET grow == buffer.size + total_size >= buffer.capacity
        new_capacity == IF buffer.capacity = 0 THEN InitialCapacity
                        ELSE buffer.capacity * 2
    IN IF grow /\ ~reallocOk THEN [buffer |-> buffer, ret |-> 0]
       ELSE [buffer |->
                [data     |-> SubSeq(buffer.data, 1, buffer.size)
                                \o SubSeq(contents, 1, total_size) \o <<NUL>>,
                 size     |-> buffer.size + total_size,
                 capacity |-> IF grow THEN new_capacity ELSE buffer.capacity],
             ret |-> total_size]

\* src/docker-excess.c:37-58. reallocOk: realloc returned non-NULL.
write_response_callback(buffer, contents, total_size, reallocOk) ==
    LET grow == buffer.size + total_size >= buffer.capacity
        new_capacity ==
            GrowCapacity(IF buffer.capacity = 0 THEN InitialCapacity
                         ELSE buffer.capacity * 2,
                         buffer.size + total_size + 1)
    IN IF grow /\ ~reallocOk THEN [buffer |-> buffer, ret |-> 0]
       ELSE [buffer |->
                [data     |-> SubSeq(buffer.data, 1, buffer.size)
                                \o SubSeq(contents, 1, total_size) \o <<NUL>>,
                 size     |-> buffer.size + total_size,
                 capacity |-> IF grow THEN new_capacity ELSE buffer.capacity],
             ret |-> total_size]

\* a variant that tells the status classes apart in another order
make_request_result_HttpFirst(res, response_code) ==
    IF res # "CURLE_OK"
    THEN IF res = "CURLE_OPERATION_TIMEDOUT" THEN "DOCKER_EXCESS_ERR_TIMEOUT"
         ELSE "DOCKER_EXCESS_ERR_NETWORK"
    ELSE IF response_code >= 400
    THEN IF response_code >= 500 THEN "DOCKER_EXCESS_ERR_INTERNAL"
         ELSE "DOCKER_EXCESS_ERR_HTTP"
    ELSE "DOCKER_EXCESS_OK"

\* src/docker-excess.c:172-191: make_request's result from the CURLcode and
\* the HTTP status
make_request_result(res, response_code) ==
    IF res # "CURLE_OK"
    THEN IF res = "CURLE_OPERATION_TIMEDOUT" THEN "DOCKER_EXCESS_ERR_TIMEOUT"
         ELSE "DOCKER_EXCESS_ERR_NETWORK"
    ELSE IF response_code >= 400
    THEN IF response_code = 404 THEN "DOCKER_EXCESS_ERR_NOT_FOUND"
         ELSE IF response_code >= 500 THEN "DOCKER_EXCESS_ERR_INTERNAL"
         ELSE "DOCKER_EXCESS_ERR_HTTP"
    ELSE "DOCKER_EXCESS_OK"

\* a body of n bytes
Pattern(n) == [i \in 1..n |-> 97 + (i % 5)]

\* body lengths around the first capacity and its doublings
BodyLens == {0, 2, InitialCapacity - 1, InitialCapacity, 2 * InitialCapacity + 3}

\* sizes of the chunks curl hands over (at most CURL_MAX_WRITE_SIZE, 16384)
ChunkLens == {1, 2, InitialCapacity - 1, InitialCapacity, 2 * InitialCapacity}

\* src/docker-excess.c:101: response_buffer_t buffer = {0}
ZeroBuffer == [data |-> <<>>, size |-> 0, capacity |-> 0]

NoWrite == [before |-> ZeroBuffer, len |-> 0, ret |-> 0]

ReqStart ==
    /\ rsent = 0
    /\ rcalls = 0
    /\ rb = ZeroBuffer
    /\ appended = <<>>
    /\ lastWrite = NoWrite
    /\ mrPc = "call"
    /\ mrRes = "none"
    /\ response = [set |-> FALSE, data |-> <<>>]
    /\ rlocks = 0
    /\ mrCurl = "none"

ReqInit ==
    /\ rbody \in { Pattern(n) : n \in BodyLens }
    /\ rstatus \in {200, 304, 403, 404, 500}
    /\ rvalid \in BOOLEAN
    /\ ReqStart

ReqIdle == rbody = <<>> /\ rstatus = 200 /\ rvalid = TRUE /\ ReqStart

\* src/docker-excess.c:97-163: the argument check, which returns before the
\* mutex is touched; else the lock, the reset and options of the handle, and
\* the call of curl_easy_perform
ReqEnter ==
    /\ mrPc = "call"
    /\ IF ~rvalid
       THEN /\ mrPc' = "done"
            /\ mrRes' = "DOCKER_EXCESS_ERR_INVALID_PARAM"
            /\ UNCHANGED rlocks
       ELSE /\ mrPc' = "perform"
            /\ rlocks' = rlocks + 1
            /\ UNCHANGED mrRes
    /\ UNCHANGED <<rbody, rstatus, rsent, rcalls, rb, appended, lastWrite, response,
                   rvalid, mrCurl>>
    /\ UNCHANGED <<logVars, execVars, httpVars, sendVars, thrVars>>

\* src/docker-excess.c:163-191: curl_easy_perform returned res
ReqReturn(res, buffer) ==
    /\ mrPc' = "done"
    /\ mrCurl' = res
    /\ mrRes' = make_request_result(res, rstatus)
    /\ response' = IF res # "CURLE_OK" THEN [set |-> FALSE, data |-> <<>>]
                   ELSE [set |-> TRUE, data |-> buffer.data]

\* curl_easy_perform hands the next n body bytes to write_response_callback;
\* a return value other than n aborts the transfer with CURLE_WRITE_ERROR
ReqWrite ==
    /\ mrPc = "perform"
    /\ rcalls < MaxChunks
    /\ rcalls' = rcalls + 1
    /\ \E n \in ChunkLens \cup {Len(rbody) - rsent}, reallocOk \in BOOLEAN :
         /\ n >= 1
         /\ n <= Len(rbody) - rsent
         /\ LET chunk == Bytes(rbody, rsent, n)
                r == write_response_callback(rb, chunk, n, reallocOk)
            IN /\ rb' = r.buffer
               /\ lastWrite' = [before |-> rb, len |-> n, ret |-> r.ret]
               /\ rsent' = rsent + n
               /\ IF r.ret = n
                  THEN /\ appended' = appended \o chunk
                       /\ UNCHANGED <<mrPc, mrRes, response, mrCurl>>
                  ELSE /\ ReqReturn("CURLE_WRITE_ERROR", r.buffer)
                       /\ UNCHANGED appended
    /\ UNCHANGED <<rbody, rstatus, rvalid, rlocks>>
    /\ UNCHANGED <<logVars, execVars, httpVars, sendVars, thrVars>>

\* the whole body has been handed over: curl_easy_perform returns CURLE_OK
ReqComplete ==
    /\ mrPc = "perform"
    /\ rsent = Len(rbody)
    /\ ReqReturn("CURLE_OK", rb)
    /\ UNCHANGED <<rbody, rstatus, rsent, rcalls, rb, appended, lastWrite, rvalid,
                   rlocks>>
    /\ UNCHANGED <<logVars, execVars, httpVars, sendVars, thrVars>>

\* the transfer fails or times out before the body is complete
ReqTransportError ==
    /\ mrPc = "perform"
    /\ rsent < Len(rbody)
    /\ \E res \in {"CURLE_RECV_ERROR", "CURLE_OPERATION_TIMEDOUT"} : ReqReturn(res, rb)
    /\ UNCHANGED <<rbody, rstatus, rsent, rcalls, rb, appended, lastWrite, rvalid,
                   rlocks>>
    /\ UNCHANGED <<logVars, execVars, httpVars, sendVars, thrVars>>

ReqNext == ReqEnter \/ ReqWrite \/ ReqComplete \/ ReqTransportError

\* ------------------------------------- the raw-socket request writer
\* the descriptor socket() returns
SockFd == 3

\* decimal digits of n, as %zu prints it
RECURSIVE Digits(_)
Digits(n) == IF n < 10 THEN 1 ELSE 1 + Digits(n \div 10)

\* src/docker-excess.h:657-665: what snprintf returns for the request head
HeadLen(pathlen, bodylen) == HeadFixedLen + pathlen + Digits(bodylen)

\* one line of the head: the request line carries the length of its target,
\* Content-Length its number, the final line is empty
HeadLine(name, text, num) == [name |-> name, text |-> text, num |-> num]

\* a head that announces a chunked body in place of its length
RequestHead_Chunked(pathlen, bodylen) ==
    << HeadLine("POST", "HTTP/1.1", pathlen),
       HeadLine("Host", "localhost", 0),
       HeadLine("Content-Type", "application/json", 0),
       HeadLine("Transfer-Encoding", "chunked", 0),
       HeadLine("Connection", "keep-alive", 0),
       HeadLine("", "", 0) >>

\* src/docker-excess.h:658-665: the lines of the format string of the head
RequestHead(pathlen, bodylen) ==
    << HeadLine("POST", "HTTP/1.1", pathlen),
       HeadLine("Host", "localhost", 0),
       HeadLine("Content-Type", "application/json", 0),
       HeadLine("Content-Length", "", bodylen),
       HeadLine("Connection", "keep-alive", 0),
       HeadLine("", "", 0) >>

\* what write(fd, p, asked) may return: -1, or a count from 1 to asked
WriteResults(asked) == { w \in {-1, 1, asked - 1, asked} : w = -1 \/ w >= 1 }

\* lengths of the path and of the body of the request
PathLens == {20, 912, 913, 1000}

SendBodyLens == {0, 2, 10, 100}

SendStart ==
    /\ sPc = "socket"
    /\ sendRes = 0
    /\ writes = <<>>
    /\ closes = 0
    /\ shead = <<>>
    /\ sopened = FALSE

SendInit == spath \in PathLens /\ sbodylen \in SendBodyLens /\ SendStart

SendIdle == spath = 0 /\ sbodylen = 0 /\ SendStart

\* src/docker-excess.h:643-644: socket()
SendSocket ==
    /\ sPc = "socket"
    /\ \E fd \in {-1, SockFd} :
         IF fd < 0
         THEN sPc' = "done" /\ sendRes' = -1 /\ UNCHANGED sopened
         ELSE sPc' = "connect" /\ sopened' = TRUE /\ UNCHANGED sendRes
    /\ UNCHANGED <<spath, sbodylen, writes, closes, shead>>
    /\ UNCHANGED <<logVars, execVars, httpVars, reqVars, thrVars>>

\* src/docker-excess.h:651-669: connect(), then the head is formatted into
\* hdr[]; a failed connect and a head that does not fit close the socket
SendConnect ==
    /\ sPc = "connect"
    /\ \E c \in {-1, 0} :
         LET hdrlen == HeadLen(spath, sbodylen) IN
         IF c < 0 \/ hdrlen >= HdrSize
         THEN sPc' = "done" /\ sendRes' = -1 /\ closes' = CloseFd(closes)
         ELSE sPc' = "head" /\ UNCHANGED <<sendRes, closes>>
    /\ UNCHANGED <<spath, sbodylen, writes, shead, sopened>>
    /\ UNCHANGED <<logVars, execVars, httpVars, reqVars, thrVars>>

\* src/docker-excess.h:671-672 and 678: write() of the head
SendHead ==
    /\ sPc = "head"
    /\ LET hdrlen == HeadLen(spath, sbodylen) IN
       \E w \in WriteResults(hdrlen) :
         /\ writes' = Append(writes, [asked |-> hdrlen, got |-> w])
         /\ shead' = RequestHead(spath, sbodylen)
         /\ IF w # hdrlen
            THEN sPc' = "done" /\ sendRes' = -1 /\ closes' = CloseFd(closes)
            ELSE IF sbodylen > 0
            THEN sPc' = "body" /\ UNCHANGED <<sendRes, closes>>
            ELSE sPc' = "done" /\ sendRes' = SockFd /\ UNCHANGED closes
    /\ UNCHANGED <<spath, sbodylen, sopened>>
    /\ UNCHANGED <<logVars, execVars, httpVars, reqVars, thrVars>>

\* src/docker-excess.h:673-678: write() of the body
SendBody ==
    /\ sPc = "body"
    /\ \E wb \in WriteResults(sbodylen) :
         /\ writes' = Append(writes, [asked |-> sbodylen, got |-> wb])
         /\ IF wb # sbodylen
            THEN sPc' = "done" /\ sendRes' = -1 /\ closes' = CloseFd(closes)
            ELSE sPc' = "done" /\ sendRes' = SockFd /\ UNCHANGED closes
    /\ UNCHANGED <<spath, sbodylen, shead, sopened>>
    /\ UNCHANGED <<logVars, execVars, httpVars, reqVars, thrVars>>

SendNext == SendSocket \/ SendConnect \/ SendHead \/ SendBody

\* ------------------------------------------ threads and the client mutex
Threads == 1..MaxThreads

NoThread == 0

NoSink == [by |-> NoThread, holder |-> NoThread, others |-> {}]

\* a text of error_msg: the format and its argument; the zeroed array
NoText == [fmt |-> "", arg |-> ""]

\* a text read while it is being overwritten, part old and part new
TornText == [fmt |-> "torn", arg |-> "torn"]

\* src/docker-excess.c:416: the literal returned when error_msg is empty
NoErrorText == [fmt |-> "No error", arg |-> ""]

\* src/docker-excess.c:173, 934: what set_error formats after a failed
\* transfer of the function f
ErrorText(f, res) ==
    [fmt |-> IF f = "get_logs" THEN "cURL error in logs: %s" ELSE "cURL error: %s",
     arg |-> res]

NoMsg == [ptr |-> "none", text |-> NoText]

NoGet == [msg |-> NoMsg, read |-> NoText]

\* a variant of the lock that does not wait
MutexFree_NoWait(m) == TRUE

\* pthread_mutex_lock(&client->mutex) returns only when no thread holds the
\* mutex (src/docker-excess.c:99, 917, 63)
MutexFree(m) == m = NoThread

\* a return path that leaves the mutex locked
pthread_mutex_unlock_Skipped(m) == m

\* pthread_mutex_unlock(&client->mutex) by its holder (src/docker-excess.c:68,
\* 168, 417, 931)
pthread_mutex_unlock(m) == NoThread

\* the threads whose request is between curl_easy_reset and the return of
\* curl_easy_perform
InCurl == { t \in Threads : tpc[t] = "perform" }

\* the threads inside vsnprintf(client->error_msg, ...) of set_error
Writers == { t \in Threads : tpc[t] = "set_error_locked" }

ThrInit ==
    /\ tpc = [t \in Threads |-> "idle"]
    /\ tcall = [t \in Threads |-> "none"]
    /\ tcount = 0
    /\ mutex = NoThread
    /\ nsink = 0
    /\ lastSink = NoSink
    /\ tget = [t \in Threads |-> "none"]
    /\ tmsg = [t \in Threads |-> NoMsg]
    /\ tres = [t \in Threads |-> "none"]
    /\ error_msg = NoText
    /\ streamEnded = FALSE
    /\ lastGet = NoGet

\* a thread calls make_request (through any of the request functions),
\* docker_excess_get_logs or docker_excess_get_error with valid arguments
\* and reaches the lock (src/docker-excess.c:97-99, 907-917, 413-415)
ThrCall(t) ==
    /\ tpc[t] = "idle"
    /\ tcount < MaxCalls
    /\ \E f \in {"make_request", "get_logs", "get_error"} :
         /\ tcall' = [tcall EXCEPT ![t] = f]
         /\ IF f = "get_error"
            THEN /\ tpc' = [tpc EXCEPT ![t] = "get_error"]
                 /\ tget' = [tget EXCEPT ![t] = "lock"]
            ELSE /\ tpc' = [tpc EXCEPT ![t] = "lock"]
                 /\ UNCHANGED tget
    /\ tcount' = tcount + 1
    /\ UNCHANGED <<mutex, nsink, lastSink, tmsg, tres, error_msg, streamEnded, lastGet>>
    /\ UNCHANGED <<logVars, execVars, httpVars, reqVars, sendVars>>

\* src/docker-excess.c:99, 917: pthread_mutex_lock returns
ThrLock(t) ==
    /\ tpc[t] = "lock"
    /\ MutexFree(mutex)
    /\ mutex' = t
    /\ tpc' = [tpc EXCEPT ![t] = "reset"]
    /\ UNCHANGED <<tcall, tcount, nsink, lastSink, tget, tmsg, tres, error_msg,
                   streamEnded, lastGet>>
    /\ UNCHANGED <<logVars, execVars, httpVars, reqVars, sendVars>>

\* src/docker-excess.c:116-163, 921-930: curl_easy_reset, the options of
\* this request, and the call of curl_easy_perform
ThrReset(t) ==
    /\ tpc[t] = "reset"
    /\ tpc' = [tpc EXCEPT ![t] = "perform"]
    /\ nsink' = 0
    /\ streamEnded' = FALSE
    /\ UNCHANGED <<tcall, tcount, mutex, lastSink, tget, tmsg, tres, error_msg, lastGet>>
    /\ UNCHANGED <<logVars, execVars, httpVars, reqVars, sendVars>>

\* src/docker-excess.c:332-334: inside curl_easy_perform of a logs call,
\* log_stream_callback invokes the sink for a line of the stream
SinkInvoked(t) ==
    /\ tpc[t] = "perform"
    /\ tcall[t] = "get_logs"
    /\ tget[t] = "none"
    /\ ~streamEnded
    /\ nsink < MaxChunks
    /\ nsink' = nsink + 1
    /\ lastSink' = [by |-> t, holder |-> mutex, others |-> InCurl \ {t}]

\* the sink returns without calling the client
ThrSink(t) ==
    /\ SinkInvoked(t)
    /\ UNCHANGED <<tpc, tcall, tcount, mutex, tget, tmsg, tres, error_msg,
                   streamEnded, lastGet>>
    /\ UNCHANGED <<logVars, execVars, httpVars, reqVars, sendVars>>

\* the sink calls docker_excess_get_error of the same client
\* (src/docker-excess.c:332-334 into 412-415)
ThrSinkReenter(t) ==
    /\ SinkInvoked(t)
    /\ tget' = [tget EXCEPT ![t] = "lock"]
    /\ UNCHANGED <<tpc, tcall, tcount, mutex, tmsg, tres, error_msg, streamEnded,
                   lastGet>>
    /\ UNCHANGED <<logVars, execVars, httpVars, reqVars, sendVars>>

\* src/docker-excess.c:415: pthread_mutex_lock of docker_excess_get_error
\* returns. The mutex is a default one (pthread_mutex_init(&c->mutex, NULL),
\* 369): locked again by its holder it does not return.
ThrGetErrorLock(t) ==
    /\ tget[t] = "lock"
    /\ MutexFree(mutex)
    /\ mutex' = t
    /\ tget' = [tget EXCEPT ![t] = "locked"]
    /\ UNCHANGED <<tpc, tcall, tcount, nsink, lastSink, tmsg, tres, error_msg,
                   streamEnded, lastGet>>
    /\ UNCHANGED <<logVars, execVars, httpVars, reqVars, sendVars>>

\* src/docker-excess.c:416-419: msg is chosen, the mutex is unlocked and msg
\* is returned: a pointer to client->error_msg itself, or to a literal
ThrGetErrorUnlock(t) ==
    /\ tget[t] = "locked"
    /\ tmsg' = [tmsg EXCEPT ![t] = IF error_msg = NoText
                                   THEN [ptr |-> "literal", text |-> NoErrorText]
                                   ELSE [ptr |-> "error_msg", text |-> error_msg]]
    /\ mutex' = pthread_mutex_unlock(mutex)
    /\ tget' = [tget EXCEPT ![t] = "read"]
    /\ UNCHANGED <<tpc, tcall, tcount, nsink, lastSink, tres, error_msg, streamEnded,
                   lastGet>>
    /\ UNCHANGED <<logVars, execVars, httpVars, reqVars, sendVars>>

\* what a read of the returned msg can give: the literal; else the present
\* content of client->error_msg, and while a thread is inside the vsnprintf
\* of set_error (src/docker-excess.c:66) the old text, the new one, or a mix
ReadOf(msg) ==
    IF msg.ptr = "literal" THEN {msg.text}
    ELSE {error_msg}
         \cup { ErrorText(tcall[u], tres[u]) : u \in Writers }
         \cup { x \in {TornText} : Writers # {} }

\* the caller of docker_excess_get_error reads the string it was given
ThrGetErrorRead(t) ==
    /\ tget[t] = "read"
    /\ \E text \in ReadOf(tmsg[t]) :
         lastGet' = [msg |-> tmsg[t], read |-> text]
    /\ tget' = [tget EXCEPT ![t] = "none"]
    /\ tmsg' = [tmsg EXCEPT ![t] = NoMsg]
    /\ tpc' = [tpc EXCEPT ![t] = IF tcall[t] = "get_error" THEN "idle" ELSE @]
    /\ tcall' = [tcall EXCEPT ![t] = IF @ = "get_error" THEN "none" ELSE @]
    /\ UNCHANGED <<tcount, mutex, nsink, lastSink, tres, error_msg, streamEnded>>
    /\ UNCHANGED <<logVars, execVars, httpVars, reqVars, sendVars>>

\* src/docker-excess.c:163-191, 930-938: curl_easy_perform returns res, the
\* mutex is unlocked; on a failure set_error is called next, else the
\* function returns
PerformReturns(t, res) ==
    /\ mutex' = pthread_mutex_unlock(mutex)
    /\ IF res # "CURLE_OK"
       THEN /\ tpc' = [tpc EXCEPT ![t] = "set_error"]
            /\ tres' = [tres EXCEPT ![t] = res]
            /\ UNCHANGED tcall
       ELSE /\ tpc' = [tpc EXCEPT ![t] = "idle"]
            /\ tcall' = [tcall EXCEPT ![t] = "none"]
            /\ UNCHANGED tres
    /\ UNCHANGED <<tcount, nsink, lastSink, tget, tmsg, error_msg, streamEnded, lastGet>>
    /\ UNCHANGED <<logVars, execVars, httpVars, reqVars, sendVars>>

\* the transfer of a make_request call ends: complete, failed, or timed out
\* after CURLOPT_TIMEOUT (src/docker-excess.c:121)
ThrRequestEnd(t) ==
    /\ tpc[t] = "perform"
    /\ tcall[t] = "make_request"
    /\ \E res \in {"CURLE_OK", "CURLE_RECV_ERROR", "CURLE_OPERATION_TIMEDOUT"} :
         PerformReturns(t, res)

\* the log stream ends: the peer closed, or the transport failed;
\* docker_excess_get_logs sets no timeout after curl_easy_reset
\* (src/docker-excess.c:921-930)
ThrStreamEnd(t) ==
    /\ tpc[t] = "perform"
    /\ tcall[t] = "get_logs"
    /\ ~streamEnded
    /\ streamEnded' = TRUE
    /\ UNCHANGED <<tpc, tcall, tcount, mutex, nsink, lastSink, tget, tmsg, tres,
                   error_msg, lastGet>>
    /\ UNCHANGED <<logVars, execVars, httpVars, reqVars, sendVars>>

\* src/docker-excess.c:930-931: with the stream ended and the sink returned,
\* curl_easy_perform of the logs call returns
ThrStreamReturn(t) ==
    /\ tpc[t] = "perform"
    /\ tcall[t] = "get_logs"
    /\ streamEnded
    /\ tget[t] = "none"
    /\ \E res \in {"CURLE_OK", "CURLE_RECV_ERROR"} : PerformReturns(t, res)

\* src/docker-excess.c:63: set_error takes the mutex
ThrSetErrorLock(t) ==
    /\ tpc[t] = "set_error"
    /\ MutexFree(mutex)
    /\ mutex' = t
    /\ tpc' = [tpc EXCEPT ![t] = "set_error_locked"]
    /\ UNCHANGED <<tcall, tcount, nsink, lastSink, tget, tmsg, tres, error_msg,
                   streamEnded, lastGet>>
    /\ UNCHANGED <<logVars, execVars, httpVars, reqVars, sendVars>>

\* src/docker-excess.c:64-68 and 174-176, 935: the message is written, the
\* mutex unlocked, and the calling function returns its error
ThrSetErrorDone(t) ==
    /\ tpc[t] = "set_error_locked"
    /\ error_msg' = ErrorText(tcall[t], tres[t])
    /\ mutex' = pthread_mutex_unlock(mutex)
    /\ tpc' = [tpc EXCEPT ![t] = "idle"]
    /\ tcall' = [tcall EXCEPT ![t] = "none"]
    /\ tres' = [tres EXCEPT ![t] = "none"]
    /\ UNCHANGED <<tcount, nsink, lastSink, tget, tmsg, streamEnded, lastGet>>
    /\ UNCHANGED <<logVars, execVars, httpVars, reqVars, sendVars>>

\* the steps a thread takes by itself once it is in a call; a make_request
\* transfer ends by itself at the latest on its timeout
ThrProgram ==
    \E t \in Threads :
        \/ ThrLock(t)
        \/ ThrReset(t)
        \/ ThrRequestEnd(t)
        \/ ThrStreamReturn(t)
        \/ ThrSetErrorLock(t)
        \/ ThrSetErrorDone(t)
        \/ ThrGetErrorLock(t)
        \/ ThrGetErrorUnlock(t)
        \/ ThrGetErrorRead(t)

\* what the callers, the sink and the daemon decide: a new call, one more
\* log line with a sink that returns or one that calls the client, the end
\* of a log stream
ThrEnvironment ==
    \E t \in Threads :
        ThrCall(t) \/ ThrSink(t) \/ ThrSinkReenter(t) \/ ThrStreamEnd(t)

ThrNext == ThrProgram \/ ThrEnvironment

LogIdle == frames = <<>> /\ LogStart

ExecIdle == resp = <<>> /\ ExecStart

Init == LogInit /\ ExecInit /\ HttpInit /\ ReqInit /\ SendInit /\ ThrInit

Next == LogNext \/ ExecNext \/ HttpNext \/ ReqNext \/ SendNext \/ ThrNext

Spec == Init /\ [][Next]_vars

\* one docker_excess_get_logs call
InitLogs == LogInit /\ ExecIdle /\ HttpIdle /\ ReqIdle /\ SendIdle /\ ThrInit

SpecLogs == InitLogs /\ [][LogNext]_vars

\* one docker_stream_exec call
InitExec == ExecInit /\ LogIdle /\ HttpIdle /\ ReqIdle /\ SendIdle /\ ThrInit

SpecExec == InitExec /\ [][ExecNext]_vars

\* requests through docker_perform_http on one client
InitHttp == HttpInit /\ LogIdle /\ ExecIdle /\ ReqIdle /\ SendIdle /\ ThrInit

SpecHttp == InitHttp /\ [][HttpNext]_vars

\* one make_request call
InitRequest == ReqInit /\ LogIdle /\ ExecIdle /\ HttpIdle /\ SendIdle /\ ThrInit

SpecRequest == InitRequest /\ [][ReqNext]_vars

\* one docker_socket_connect_and_send call
InitSend == SendInit /\ LogIdle /\ ExecIdle /\ HttpIdle /\ ReqIdle /\ ThrInit

SpecSend == InitSend /\ [][SendNext]_vars

\* docker_stream_exec from step 3 on: the request writer, then the reader of
\* the response on the descriptor it returned
InitStreamExec == SendInit /\ ExecInit /\ LogIdle /\ HttpIdle /\ ReqIdle /\ ThrInit

StreamExecNext == SendNext \/ ExecSendFailed \/ ExecOnSocket

SpecStreamExec == InitStreamExec /\ [][StreamExecNext]_vars

\* threads making calls on one docker_excess_t
InitThreads == ThrInit /\ LogIdle /\ ExecIdle /\ HttpIdle /\ ReqIdle /\ SendIdle

SpecThreads == InitThreads /\ [][ThrNext]_vars

\* the same, with every thread going on whenever it can: a thread waiting
\* for the mutex gets it if it is free again and again
SpecThreadsFair ==
    /\ InitThreads
    /\ [][ThrNext]_vars
    /\ \A t \in Threads :
          /\ SF_vars(ThrLock(t))
          /\ SF_vars(ThrSetErrorLock(t))
          /\ WF_vars(ThrReset(t))
          /\ WF_vars(ThrRequestEnd(t))
          /\ WF_vars(ThrSetErrorDone(t))
          /\ WF_vars(ThrStreamReturn(t))
          /\ SF_vars(ThrGetErrorLock(t))
          /\ WF_vars(ThrGetErrorUnlock(t))
          /\ WF_vars(ThrGetErrorRead(t))

\* ---------------------------------------------------- claims: log streaming
Lines(recs) == [i \in 1..Len(recs) |-> recs[i].line]

\* what the sink is to receive for a sequence of frames: each payload without
\* its trailing CR/LF, the empty ones left out, in wire order
RECURSIVE ExpectedLines(_)
ExpectedLines(fs) ==
    IF fs = <<>> THEN <<>>
    ELSE LET p == Head(fs).payload
             n == StripLen(p, Len(p))
         IN (IF n > 0 THEN <<SubSeq(p, 1, n)>> ELSE <<>>) \o ExpectedLines(Tail(fs))

\* C1: when log_stream_callback gets the whole stream of valid frames as one
\* chunk (and every malloc succeeds), the sink is invoked once per frame with
\* a non-empty stripped payload, in wire order, with that payload, and the
\* cursor advances by 8 + the declared length after each frame.
C1_OneChunkDecodesEveryFrame ==
    (ncalls = 1 /\ pos = Len(wire) /\ ~allocFailed) =>
        /\ Lines(sunk) = ExpectedLines(frames)
        /\ Len(steps) = Len(frames)
        /\ \A i \in 1..Len(steps) : steps[i].advance = HeaderLen + steps[i].declared

\* C2: once the whole stream has been delivered, in whatever chunks, the sink
\* invocations are those of one call with the whole stream.
C2_ChunkedEqualsWhole ==
    (pos = Len(wire) /\ ~allocFailed) =>
        Lines(sunk) = Lines(log_stream_callback(wire, {}).sunk)

\* C3: every sink invocation passes bytes of one frame of the stream, read at
\* that frame's header, all of whose declared payload had been received.
C3_SinkOnlyCompleteFrames ==
    \A i \in 1..Len(sunk) :
        \E k \in 1..Len(frames) :
            /\ sunk[i].at = FrameStart(k)
            /\ FrameStart(k + 1) <= sunk[i].received
            /\ Len(sunk[i].line) <= Len(frames[k].payload)
            /\ sunk[i].line = SubSeq(frames[k].payload, 1, Len(sunk[i].line))

\* C4: when the peer closes, docker_excess_get_logs returns DOCKER_EXCESS_OK
\* if no frame bytes are pending and an error if the close came inside a
\* frame's header or payload.
C4_CloseInsideFrameIsError ==
    (logPc = "done" /\ logEnd = "close") =>
        (logRes = "DOCKER_EXCESS_OK" <=> pos \in FrameBoundaries)

\* ------------------------------------------------- claims: header skipping
\* offset just after the first CR LF CR LF of s, -1 when s holds none
FirstBoundary(s) ==
    LET i == FindTerminator(s, 0, Len(s)) IN IF i < 0 THEN -1 ELSE i + 4

\* docker_socket_skip_headers when the first read() returns the whole response
SingleRead(r) == SkipIteration(<<>>, 0, r, BufCap)

\* docker_socket_skip_headers returned because read() returned <= 0 before
\* the daemon had sent all of resp
CutShort == skipDone /\ skipRes = -1 /\ total < BufCap /\ skipRd < Len(resp)

\* C5: for a response whose header block fits the buffer, however it is cut
\* into reads, docker_socket_skip_headers succeeds with the boundary at the
\* offset it has when the whole response arrives in one read.
C5_CutsDoNotMoveBoundary ==
    (skipDone /\ ~CutShort /\ FirstBoundary(resp) \in 0..BufCap) =>
        /\ skipRes = 0
        /\ SingleRead(resp).ret = 0
        /\ body_start = SingleRead(resp).body_start

\* C6: when docker_socket_skip_headers succeeds, the boundary it used is the
\* first CR LF CR LF of the bytes received.
C6_BoundaryIsFirstTerminator ==
    (skipDone /\ skipRes = 0) => body_start = FirstBoundary(Bytes(resp, 0, skipRd))

\* C7: the initial body bytes are all the bytes read after the boundary, and
\* stdout holds every byte read after the boundary, once, in order.
C7_NoBodyByteLost ==
    (skipDone /\ skipRes = 0) =>
        /\ Bytes(out_buf, 0, out_len) = Bytes(resp, body_start, skipRd - body_start)
        /\ stdOut = Bytes(resp, body_start, rd - body_start)

\* ---------------------------------------------------- claims: buffered calls
\* C8: with a nonzero maximum, an append that would take the buffer (with its
\* NUL) past the maximum returns an error and leaves the buffer as it was; an
\* append that reports success has stored all of its bytes.
C8_OverflowingAppendFails ==
    lastAppend.maxcap # 0 =>
        /\ (lastAppend.before.size + lastAppend.len + 1 > lastAppend.maxcap =>
                lastAppend.ret = -1 /\ buf = lastAppend.before)
        /\ (lastAppend.ret = 0 => buf.size = lastAppend.before.size + lastAppend.len)

\* C9: a buffered call that reports success hands the caller every body byte:
\* docker_perform_http returning CURLE_OK, docker_exec_start returning 0,
\* make_request returning DOCKER_EXCESS_OK.
C9_SuccessMeansWholeBody ==
    /\ (httpPc = "done" /\ httpRes = "CURLE_OK") => Bytes(buf.data, 0, buf.size) = body
    /\ (httpPc = "done" /\ esRes = 0) => esOut = body
    /\ (mrPc = "done" /\ mrRes = "DOCKER_EXCESS_OK") =>
           response.set /\ Bytes(response.data, 0, Len(rbody)) = rbody

\* C10: after every sequence of write_response_callback calls, data[0..size)
\* is the concatenation of the chunks of the successful calls, size is their
\* total length N, capacity >= N, and a failed call returned 0 and left the
\* buffer as it was.
C10_AppendsConcatenate ==
    /\ Bytes(rb.data, 0, rb.size) = appended
    /\ rb.size = Len(appended)
    /\ rb.capacity >= Len(appended)
    /\ (lastWrite.ret # lastWrite.len => lastWrite.ret = 0 /\ rb = lastWrite.before)

\* three appends, the last of which took more than one doubling
C10_Witness ==
    /\ rcalls = 3
    /\ lastWrite.ret = lastWrite.len
    /\ lastWrite.before.capacity = InitialCapacity
    /\ rb.capacity = 4 * InitialCapacity
    /\ rb.size = Len(rbody)

\* C13: a read failure in the streaming loop of docker_stream_exec (read
\* returns a negative result after the boundary was found) makes the call
\* return an error; it returns 0 only when the stream ended by a clean close
\* of the peer (read returned 0).
C13_ZeroOnlyOnCleanClose ==
    /\ (execPc = "done" /\ skipDone /\ skipRes = 0 /\ lastRead < 0) => execRes = -1
    /\ (execPc = "done" /\ execRes = 0) => lastRead = 0

\* C14: when read() returns <= 0 before the boundary was found,
\* docker_socket_skip_headers has returned -1 and docker_stream_exec has
\* returned -1 with nothing written to stdout.
C14_EndBeforeBoundaryIsError ==
    (lastRead <= 0 /\ body_start = -1) =>
        /\ skipDone /\ skipRes = -1
        /\ execPc = "done" /\ execRes = -1
        /\ stdOut = <<>>

\* the peer closed after a part of the head
C14_Witness ==
    /\ lastRead = 0
    /\ body_start = -1
    /\ rd > 0
    /\ execPc = "done"

\* C15: docker_socket_skip_headers stores at most bufcap bytes, and once
\* bufcap bytes without a CRLFCRLF have been received it has returned -1
\* without reading again.
C15_HeaderScanBounded ==
    /\ total <= BufCap
    /\ Len(out_buf) <= BufCap
    /\ (rd >= BufCap /\ FirstBoundary(Bytes(resp, 0, BufCap)) = -1) =>
           /\ skipDone /\ skipRes = -1
           /\ execPc = "done" /\ execRes = -1
           /\ rd = skipRd

\* a read that brought more than the buffer could take: the rest was dropped
\* and the call failed
C15_Witness ==
    /\ skipDone /\ skipRes = -1
    /\ lastRead > 0
    /\ total = BufCap
    /\ rd > BufCap

\* ------------------------------------------- claims: empty frames, channels
\* the payload of frame f is empty once its trailing CR/LF are removed
StrippedEmpty(f) == StripLen(f.payload, Len(f.payload)) = 0

\* C16: when a chunk holds the whole stream, a frame whose payload is empty
\* after stripping (declared length 0, or only CR/LF) gives no sink
\* invocation, and every later frame of the chunk with a non-empty stripped
\* payload is delivered to the sink.
C16_EmptyFrameThenRestDelivered ==
    (ncalls = 1 /\ pos = Len(wire) /\ ~allocFailed) =>
        \A k \in 1..Len(frames) :
            StrippedEmpty(frames[k]) =>
                /\ \A i \in 1..Len(sunk) : sunk[i].at # FrameStart(k)
                /\ \A j \in (k + 1)..Len(frames) :
                       ~StrippedEmpty(frames[j]) =>
                           \E i \in 1..Len(sunk) :
                               /\ sunk[i].at = FrameStart(j)
                               /\ <<sunk[i].line>> = ExpectedLines(<<frames[j]>>)

AsStdout(fs) == [k \in 1..Len(fs) |-> [ch |-> STDOUT_CH, payload |-> fs[k].payload]]

RECURSIVE IsDoubling(_)
IsDoubling(c) ==
    \/ c = InitialCapacity
    \/ c > InitialCapacity /\ c % 2 = 0 /\ IsDoubling(c \div 2)

\* C18: the buffer of make_request starts with capacity 0; afterwards the
\* capacity is 8192 * 2^k and never decreases; an append that grows the
\* buffer doubles until size + appended length + 1 fits, and no further.
C18_CapacityDoubles ==
    /\ (rcalls = 0 => rb.capacity = 0)
    /\ (rb.capacity = 0 \/ IsDoubling(rb.capacity))
    /\ rb.capacity >= lastWrite.before.capacity
    /\ (rcalls > 0 /\ lastWrite.ret = lastWrite.len => rb.capacity >= rb.size + 1)
    /\ (rb.capacity # lastWrite.before.capacity =>
           LET need == lastWrite.before.size + lastWrite.len + 1 IN
           /\ rb.capacity >= need
           /\ \/ rb.capacity = InitialCapacity
              \/ rb.capacity = 2 * lastWrite.before.capacity
              \/ rb.capacity \div 2 < need)

\* the first append took three growth steps: 8192, 16384, 32768
C18_Witness ==
    /\ rcalls = 1
    /\ lastWrite.before.capacity = 0
    /\ lastWrite.len = 2 * InitialCapacity
    /\ rb.capacity = 4 * InitialCapacity

\* C19: in every state of the response buffer of make_request size <=
\* capacity and the byte at index size is NUL, and the body handed to the
\* caller on success is a terminated string.
C19_AlwaysTerminated ==
    /\ rb.size <= rb.capacity
    /\ Len(rb.data) > rb.size
    /\ rb.data[rb.size + 1] = NUL
    /\ (mrPc = "done" /\ mrRes = "DOCKER_EXCESS_OK") =>
           /\ response.set
           /\ Len(response.data) > 0
           /\ response.data[Len(response.data)] = NUL

\* -------------------------------------------- claims: the request writer
\* some write() of the call returned -1
WriteFailed == \E i \in 1..Len(writes) : writes[i].got = -1

\* C20: docker_socket_connect_and_send goes on after a short write: once it
\* has started to write, it returns -1 only if a write failed, and otherwise
\* returns the descriptor after the whole head and body were accepted.
C20_ShortWritesAreContinued ==
    (sPc = "done" /\ writes # <<>> /\ ~WriteFailed) =>
        /\ sendRes = SockFd
        /\ \A i \in 1..Len(writes) : writes[i].got = writes[i].asked

\* ------------------------------------------------ claims: the client mutex
\* C11: at most one thread is between curl_easy_reset and the return of
\* curl_easy_perform, that thread holds the client mutex, and every sink
\* invocation of a logs call is made while the streaming thread holds the
\* mutex and no other thread is in that region.
C11_CurlHandleSerialized ==
    /\ Cardinality(InCurl) <= 1
    /\ \A t \in InCurl : mutex = t
    /\ lastSink # NoSink => lastSink.holder = lastSink.by /\ lastSink.others = {}

\* the sink was invoked in a logs call while another thread, in
\* make_request, waits for the mutex
C11_Witness ==
    \E t, u \in Threads :
        /\ tpc[t] = "perform" /\ tcall[t] = "get_logs"
        /\ nsink > 0 /\ lastSink.by = t
        /\ tpc[u] = "lock" /\ tcall[u] = "make_request"

\* C12: a streaming logs call whose peer never closes can be ended from the
\* caller's side: with every thread of the client taking each step it can,
\* the call leaves curl_easy_perform and the client mutex is released.
C12_StreamingLockReleased ==
    \A t \in Threads : (tpc[t] = "perform" /\ tcall[t] = "get_logs") ~> (mutex # t)

\* ------------------------------------- claims: the DOCKER client's buffer
\* C22: what docker_buffer, docker_buffer_size, docker_last_http_status and
\* docker_last_error expose during and after a request comes from that
\* request alone: the buffer holds only bytes of its body, the status is 0 or
\* its status, the error text is empty or the one its outcome set.
C22_OnlyLatestRequestVisible ==
    /\ httpPc \in {"perform", "done"} =>
           /\ buf.size <= sent
           /\ Bytes(buf.data, 0, buf.size) = Bytes(body, 0, buf.size)
           /\ last_http_status \in {0, status}
    /\ httpPc = "perform" => last_http_status = 0 /\ last_error = ""
    /\ httpPc = "done" => last_error = ErrorAfterPerform(httpRes, buf, max_response)

\* a request that succeeded after one that had left bytes, a 404 and an
\* error text
C22_Witness ==
    /\ nreq = 2
    /\ found.size > 0 /\ found.status = 404 /\ found.error # ""
    /\ httpPc = "done" /\ httpRes = "CURLE_OK"
    /\ status = 200 /\ last_http_status = 200
    /\ buf.size > 0
    /\ last_error = ""

\* C23: with max_response = 0 an append fails only when realloc fails and
\* stores all of its bytes otherwise, so that the buffer holds every byte
\* appended.
C23_ZeroMeansUnlimited ==
    /\ (lastAppend.maxcap = 0 /\ lastAppend.alloc) =>
           /\ lastAppend.ret = 0
           /\ buf.size = lastAppend.before.size + lastAppend.len
    /\ (max_response = 0 /\ httpPc # "idle" /\ lastAppend.ret = 0) =>
           Bytes(buf.data, 0, buf.size) = Bytes(body, 0, sent)

\* the five-byte body, stored by more than one append
C23_Witness ==
    /\ max_response = 0
    /\ lastAppend.before.size > 0
    /\ lastAppend.len > 0
    /\ sent = Len(body)
    /\ buf.size = 5

\* C28: with a maximum M # 0, size + 1 <= M in every state, and a non-empty
\* append to a buffer with size + 1 = M returns -1, leaves the buffer as it
\* was, and aborts the transfer (docker_write_cb returned 0).
C28_CapNeverExceeded ==
    max_response # 0 =>
        /\ buf.size + 1 <= max_response
        /\ (lastAppend.len > 0 /\ lastAppend.before.size + 1 = lastAppend.maxcap) =>
               /\ lastAppend.ret = -1
               /\ buf = lastAppend.before
               /\ httpPc = "done" /\ httpRes = "CURLE_WRITE_ERROR"

\* the buffer was full at M = 4 and one more byte arrived
C28_Witness ==
    /\ max_response = 4
    /\ lastAppend.before.size = 3
    /\ lastAppend.len > 0
    /\ lastAppend.ret = -1
    /\ httpRes = "CURLE_WRITE_ERROR"

\* C29: when docker_perform_http returns CURLE_OK with fewer body bytes
\* stored than the daemon sent, last_error is the truncation message.
C29_TruncationIsReported ==
    (httpPc = "done" /\ httpRes = "CURLE_OK" /\ max_response # 0
        /\ buf.size < Len(body)) =>
        last_error = "response truncated (max cap reached)"

\* ------------------------------------ claims: the result of make_request
\* C30: the result of make_request is decided in this order: invalid
\* arguments give INVALID_PARAM with the mutex untouched; a timeout of the
\* transfer gives TIMEOUT; any other failure of the transfer NETWORK; else
\* 404 gives NOT_FOUND, a status >= 500 INTERNAL, another status >= 400 HTTP,
\* and a status below 400 OK; *response is assigned exactly when the
\* transfer succeeded.
C30_ResultPrecedence ==
    mrPc = "done" =>
        /\ mrRes = IF ~rvalid THEN "DOCKER_EXCESS_ERR_INVALID_PARAM"
                   ELSE IF mrCurl = "CURLE_OPERATION_TIMEDOUT"
                   THEN "DOCKER_EXCESS_ERR_TIMEOUT"
                   ELSE IF mrCurl # "CURLE_OK" THEN "DOCKER_EXCESS_ERR_NETWORK"
                   ELSE IF rstatus = 404 THEN "DOCKER_EXCESS_ERR_NOT_FOUND"
                   ELSE IF rstatus >= 500 THEN "DOCKER_EXCESS_ERR_INTERNAL"
                   ELSE IF rstatus >= 400 THEN "DOCKER_EXCESS_ERR_HTTP"
                   ELSE "DOCKER_EXCESS_OK"
        /\ (~rvalid => rlocks = 0 /\ mrCurl = "none")
        /\ (response.set <=> rvalid /\ mrCurl = "CURLE_OK")

\* the transfer succeeded with status 404: NOT_FOUND, and the body of the
\* error is handed to the caller
C30_Witness ==
    /\ mrPc = "done"
    /\ rvalid
    /\ mrCurl = "CURLE_OK"
    /\ rstatus = 404
    /\ mrRes = "DOCKER_EXCESS_ERR_NOT_FOUND"
    /\ response.set
    /\ Len(rbody) > 0

\* ------------------------------------ claims: the head of the raw request
\* the lines of the head sent whose name is n
LinesNamed(n) == { i \in 1..Len(shead) : shead[i].name = n }

\* body bytes written after the head
BodyWritten == IF Len(writes) >= 2 THEN writes[2].got ELSE 0

\* C21: the request docker_socket_connect_and_send produces is a request
\* line, a Host header, a Content-Length header whose value is the number of
\* body bytes written after the head, and a final empty line, with no
\* chunked transfer encoding; a head that does not fit the 1024 bytes of
\* hdr[] makes the call fail with nothing sent.
C21_RequestWellFormed ==
    /\ (sPc = "done" /\ sendRes # -1) =>
           /\ writes[1].got = HeadLen(spath, sbodylen)
           /\ shead[1].name = "POST" /\ shead[1].num = spath
           /\ Cardinality(LinesNamed("Host")) = 1
           /\ \E i \in LinesNamed("Content-Length") :
                  /\ LinesNamed("Content-Length") = {i}
                  /\ shead[i].num = BodyWritten
           /\ LinesNamed("Transfer-Encoding") = {}
           /\ LinesNamed("") = {Len(shead)}
    /\ (sPc = "done" /\ HeadLen(spath, sbodylen) >= HdrSize) =>
           /\ sendRes = -1
           /\ writes = <<>>
           /\ shead = <<>>

\* a request with a body went out whole, its head one byte short of hdr[]
C21_Witness ==
    /\ sPc = "done"
    /\ sendRes = SockFd
    /\ HeadLen(spath, sbodylen) = HdrSize - 1
    /\ sbodylen > 0
    /\ Len(writes) = 2

\* a head of exactly 1024 bytes was refused after the connect
C21_WitnessTooLong ==
    /\ sPc = "done"
    /\ HeadLen(spath, sbodylen) = HdrSize
    /\ closes = 1
    /\ sendRes = -1

\* ------------------------------------ claims: the descriptor of the socket
\* C24: docker_stream_exec closes the socket it opened exactly once on every
\* path: never twice, never before it is open, and once the call has
\* returned the descriptor is closed if socket() had returned one.
C24_ClosedExactlyOnce ==
    /\ closes + execCloses <= (IF sopened THEN 1 ELSE 0)
    /\ execPc = "done" => closes + execCloses = (IF sopened THEN 1 ELSE 0)
    /\ (sPc = "done" /\ sendRes = -1) => closes = (IF sopened THEN 1 ELSE 0)

\* the request went out, the head of the response never ended, and the
\* failure path of step 4 closed the descriptor
C24_Witness ==
    /\ sopened
    /\ sendRes = SockFd
    /\ execPc = "done"
    /\ execRes = -1
    /\ closes = 0
    /\ execCloses = 1

\* ------------------------------- claims: the mutex inside the library
\* the threads at a pthread_mutex_lock the library reaches by itself: the
\* one of make_request and docker_excess_get_logs, the one of set_error
\* after a failed transfer, the one of a docker_excess_get_error call made
\* by the caller
AtLibraryLock ==
    { t \in Threads : \/ tpc[t] \in {"lock", "set_error"}
                      \/ tpc[t] = "get_error" /\ tget[t] = "lock" }

\* C25: every function of the library that takes the client mutex has
\* released it on return, and set_error is called only after its calling
\* function has released the mutex: no thread is at a lock of the library's
\* own call chain while it holds the mutex itself.
C25_MutexReleasedOnEveryPath ==
    \A t \in Threads :
        /\ tpc[t] = "idle" => mutex # t
        /\ (tpc[t] = "get_error" /\ tget[t] = "read") => mutex # t
        /\ t \in AtLibraryLock => mutex # t

\* a thread whose transfer failed has released the mutex and taken it again
\* inside set_error, while another waits in docker_excess_get_error
C25_Witness ==
    \E t, u \in Threads :
        /\ tpc[t] = "set_error_locked"
        /\ mutex = t
        /\ tres[t] # "none"
        /\ tpc[u] = "get_error"
        /\ tget[u] = "lock"

\* ------------------------------------ claims: re-entry from the sink
\* C26: a docker_excess_get_logs call whose stream has ended leaves
\* curl_easy_perform, the first step of its return, also when its sink calls
\* docker_excess_get_error of the same client.
C26_ReentrantSinkReturns ==
    \A t \in Threads :
        (tpc[t] = "perform" /\ tcall[t] = "get_logs" /\ streamEnded)
            ~> (tpc[t] # "perform")

\* ------------------------------------ claims: the text of the last error
\* C27: the text docker_excess_get_error gave a thread does not change while
\* the thread reads it: no thread is inside set_error's write while another
\* holds a msg that points into client->error_msg, the array still holds
\* the text it held on return, and the read gives that text.
C27_ErrorTextStable ==
    /\ \A t \in Threads :
          (tget[t] = "read" /\ tmsg[t].ptr = "error_msg") =>
              /\ Writers = {}
              /\ error_msg = tmsg[t].text
    /\ lastGet.read = lastGet.msg.text

====
